---- MODULE Spec2Model ----
(***************************************************************************)
(* Model of perso/voyages/optimize_images.py: the confirmation prompt, the *)
(* batch loop of main() over TRAVEL_FOLDERS, and optimize_image().         *)
(*                                                                         *)
(* A file name is a sequence of one-character strings, so that str.lower,  *)
(* the glob patterns and Path.with_suffix are computed character by        *)
(* character.  A path is a record [dir, name]; the filesystem is a         *)
(* function from the existing paths to their content.                      *)
(***************************************************************************)
EXTENDS Integers, Sequences, FiniteSets, TLC

VARIABLES
    pc,             \* position of the script
    response,       \* the operator's answer to input() (line 119)
    CREATE_WEBP,    \* configuration flag of line 16, fixed for a run
    dirs,           \* existing directories
    fs,             \* path -> content of the existing files
    folder_idx,     \* position of "for folder in TRAVEL_FOLDERS" (line 79)
    images,         \* rest of the list of line 88 still to iterate (line 90)
    original_size,  \* main's local of line 91
    ret,            \* value optimize_image returned to line 92
    total_images,   \* line 75
    total_original, \* line 76
    total_optimized,\* line 77
    out,            \* printed lines, abstracted to tags
    fs0,            \* history: the filesystem when the script started
    pre_fs,         \* history: the filesystem before the latest call
    calls           \* history: one record per optimize_image call

vars == <<pc, response, CREATE_WEBP, dirs, fs, folder_idx, images,
          original_size, ret, total_images, total_original, total_optimized,
          out, fs0, pre_fs, calls>>

----------------------------------------------------------------------------
(* Bounds of the model *)

\* number of configured folders the run iterates over
NumFolders == 2
\* number of files present on disk when the script starts
MaxFiles == 2
\* byte sizes range over 1..MaxBytes
MaxBytes == 2

----------------------------------------------------------------------------
(* Configuration, lines 14-29 *)

QUALITY_JPG == 85
QUALITY_WEBP == 80
MAX_SIZE == <<2000, 2000>>

ALL_FOLDERS ==
    <<"Finlande", "Norvege", "Estonie", "Lettonie", "France/Nice",
      "France/Monaco", "France/Cannes", "Espagne/Lloret de mar">>

\* the first NumFolders entries of the configured list
TRAVEL_FOLDERS ==
    SubSeq(ALL_FOLDERS, 1, IF NumFolders < Len(ALL_FOLDERS) THEN NumFolders
                           ELSE Len(ALL_FOLDERS))

----------------------------------------------------------------------------
(* Strings *)

UPPER == <<"A","B","C","D","E","F","G","H","I","J","K","L","M",
           "N","O","P","Q","R","S","T","U","V","W","X","Y","Z">>
LOWER == <<"a","b","c","d","e","f","g","h","i","j","k","l","m",
           "n","o","p","q","r","s","t","u","v","w","x","y","z">>

lower_char(c) ==
    IF \E i \in DOMAIN UPPER : UPPER[i] = c
    THEN LOWER[CHOOSE i \in DOMAIN UPPER : UPPER[i] = c]
    ELSE c

\* str.lower()
lower(s) == [i \in DOMAIN s |-> lower_char(s[i])]

\* the list of line 120
AFFIRMATIVE == { <<"o">>, <<"o","u","i">>, <<"y">>, <<"y","e","s">> }

\* response.lower() in ['o', 'oui', 'y', 'yes']
accepted_exact(r) == r \in AFFIRMATIVE
accepted(r) == lower(r) \in AFFIRMATIVE

\* Match of one name against one glob pattern, as PosixPath.glob does it:
\* "*" matches any run of characters, any other character matches itself,
\* upper and lower case being different characters.
RECURSIVE fnmatch(_, _)
fnmatch(name, pat) ==
    IF pat = <<>> THEN name = <<>>
    ELSE IF Head(pat) = "*"
         THEN \/ fnmatch(name, Tail(pat))
              \/ name # <<>> /\ fnmatch(Tail(name), pat)
         ELSE /\ name # <<>>
              /\ Head(name) = Head(pat)
              /\ fnmatch(Tail(name), Tail(pat))

PATTERN_jpg == <<"*", ".", "j", "p", "g">>
PATTERN_JPG == <<"*", ".", "J", "P", "G">>
SUFFIX_webp == <<".", "w", "e", "b", "p">>

\* index of the last "." of a name that starts a suffix (0 when there is none):
\* PurePath.suffix ignores a leading dot and a trailing dot
last_dot(name) ==
    LET cand == { i \in 2..(Len(name) - 1) : name[i] = "." }
    IN IF cand = {} THEN 0 ELSE CHOOSE i \in cand : \A j \in cand : j <= i

\* Path.with_suffix (line 55)
with_suffix_appended(p, suffix) == [dir |-> p.dir, name |-> p.name \o suffix]
with_suffix_in_cwd(p, suffix) ==
    LET d == last_dot(p.name)
        stem == IF d = 0 THEN p.name ELSE SubSeq(p.name, 1, d - 1)
    IN [dir |-> <<>>, name |-> stem \o suffix]
with_suffix(p, suffix) ==
    LET d == last_dot(p.name)
        stem == IF d = 0 THEN p.name ELSE SubSeq(p.name, 1, d - 1)
    IN [dir |-> p.dir, name |-> stem \o suffix]

----------------------------------------------------------------------------
(* Files and images *)

\* Content of a file.  fmt is what Image.open identifies from the bytes
\* ("none" for a file no decoder accepts), mode and size are the decoded
\* image's, quality is the setting the file was encoded with by this script
\* (0 for a file the script has not written).
Content(f, m, s, b, q) ==
    [fmt |-> f, mode |-> m, size |-> s, bytes |-> b, quality |-> q]

\* a file no decoder accepts, of b bytes
Garbage(b) == Content("none", "none", <<0, 0>>, b, 0)

\* what open(filename, "w+b") leaves when the encoder then raises
Truncated == Garbage(0)

\* Image.open (line 35) identifies the format from the content, not the name
Decodable(c) == c.fmt \in {"JPEG", "PNG", "WEBP"}

\* modes the JPEG encoder writes (line 47 raises OSError for any other)
JPEG_RAWMODE == {"1", "L", "RGB", "RGBX", "CMYK", "YCbCr"}

\* line 37
needs_rgb(mode) == mode \in {"RGBA", "P"}

\* line 41
exceeds_both(size) == size[1] > MAX_SIZE[1] /\ size[2] > MAX_SIZE[2]
exceeds(size) == size[1] > MAX_SIZE[1] \/ size[2] > MAX_SIZE[2]

Abs(n) == IF n < 0 THEN -n ELSE n
Max2(a, b) == IF a >= b THEN a ELSE b

\* Image.thumbnail(MAX_SIZE) of line 42: the size that fits MAX_SIZE and keeps
\* the aspect ratio w/h; each candidate floor/ceil is scored by how far it
\* moves the ratio, the floor wins a tie, and no side drops below 1.  The
\* divisions are exact (cross-multiplied), where the library uses floats.
thumbnail(size) ==
    LET x == MAX_SIZE[1]
        y == MAX_SIZE[2]
        w == size[1]
        h == size[2]
    IN IF x >= w /\ y >= h THEN size
       ELSE IF x * h >= w * y                      \* x / y >= aspect
            THEN LET lo == (y * w) \div h          \* floor(y * aspect)
                     hi == IF lo * h = y * w THEN lo ELSE lo + 1
                     key(n) == Abs(w * y - n * h)  \* |aspect - n / y|
                 IN <<Max2(IF key(lo) <= key(hi) THEN lo ELSE hi, 1), y>>
            ELSE LET lo == (x * h) \div w          \* floor(x / aspect)
                     hi == IF lo * w = x * h THEN lo ELSE lo + 1
                     \* key(n) = 0 if n == 0 else |aspect - x / n|, compared
                     \* as key(lo) <= key(hi) after clearing denominators
                     lo_wins == IF lo = 0 THEN TRUE
                                ELSE Abs(w * lo - x * h) * hi
                                       <= Abs(w * hi - x * h) * lo
                 IN <<x, Max2(IF lo_wins THEN lo ELSE hi, 1)>>

\* the filesystem f with content v at path k (created or overwritten)
Put(f, k, v) == [x \in DOMAIN f \cup {k} |-> IF x = k THEN v ELSE f[x]]

\* One way a call of optimize_image can end: the filesystem it leaves, the
\* value it returns, whether the environment (permissions, disk, memory)
\* caused a failure, the lines it printed, and whether an exception left it.
Outcome(f, r, e, o, x) ==
    [fs |-> f, ret |-> r, env |-> e, out |-> o, raised |-> x]

\* lines 62-64: except Exception -> print the error, return False
except_reraise(f, e, o) == Outcome(f, FALSE, e, o, TRUE)
except_Exception(f, e, o) == Outcome(f, FALSE, e, o \o <<"err">>, FALSE)

\* what the WebP encoder stores: modes other than RGB/RGBA are converted
webp_mode(mode) == IF mode \in {"RGB", "RGBA", "RGBX"} THEN mode ELSE "RGB"

\* optimize_image(image_path), lines 31-64: the set of ways the call can end
\* on filesystem fsys with the flag of line 16 equal to webp.
optimize_image(fsys, image_path, webp) ==
    LET src == fsys[image_path]
        \* lines 37-38
        mode1 == IF needs_rgb(src.mode) THEN "RGB" ELSE src.mode
        \* lines 41-43
        resized == exceeds(src.size)
        size1 == IF resized THEN thumbnail(src.size) ELSE src.size
        o1 == IF resized THEN <<"resized">> ELSE <<>>
        \* line 47 done: the source file holds the re-encoded image, n bytes
        primary(n) ==
            Put(fsys, image_path, Content("JPEG", mode1, size1, n, QUALITY_JPG))
        \* line 51
        o2 == o1 \o <<"ok">>
        \* line 55
        webp_path == with_suffix(image_path, SUFFIX_webp)
        \* lines 54-60
        secondary(f1) ==
            IF ~webp THEN { Outcome(f1, TRUE, FALSE, o2, FALSE) }
            ELSE { Outcome(Put(f1, webp_path,
                               Content("WEBP", webp_mode(mode1), size1, m,
                                       QUALITY_WEBP)),
                           TRUE, FALSE, o2 \o <<"webp">>, FALSE)
                   : m \in 1..MaxBytes }
                 \* line 56 cannot open webp_path, or removes the file it had
                 \* created when the encoder raised
                 \cup { except_Exception(f1, TRUE, o2) }
                 \* line 56: the encoder raised after webp_path was opened
                 \cup { except_Exception(Put(f1, webp_path, Truncated), TRUE, o2) }
    IN IF ~Decodable(src)
       THEN \* line 35 raises UnidentifiedImageError
            { except_Exception(fsys, FALSE, <<>>) }
       ELSE \* lines 35-42 raise (unreadable file, out of memory)
            { except_Exception(fsys, TRUE, <<>>) }
            \* line 46 raises, or line 47 cannot open image_path for writing
            \cup { except_Exception(fsys, TRUE, o1) }
            \cup (IF mode1 \notin JPEG_RAWMODE
                  THEN \* line 47: image_path is opened "w+b", then the JPEG
                       \* encoder refuses the mode
                       { except_Exception(Put(fsys, image_path, Truncated),
                                          FALSE, o1) }
                  ELSE \* line 47: the encoder raised after the file was opened
                       { except_Exception(Put(fsys, image_path, Truncated),
                                          TRUE, o1) }
                       \cup UNION {
                           IF src.bytes = 0
                           THEN \* line 49: ZeroDivisionError
                                { except_Exception(primary(n), FALSE, o1) }
                           ELSE secondary(primary(n))
                           : n \in 1..MaxBytes })

----------------------------------------------------------------------------
(* Listing a folder, lines 80-88 *)

FolderDir(folder) == <<folder>>

\* Path(folder).exists()
exists(folder) == FolderDir(folder) \in dirs

\* folder_path.glob(pattern): the entries directly inside the folder whose
\* name matches
glob(folder, pattern) ==
    { p \in DOMAIN fs : /\ p.dir = FolderDir(folder)
                        /\ fnmatch(p.name, pattern) }

\* the orders in which a directory scan can yield a set of entries
Orders(S) ==
    { q \in [1..Cardinality(S) -> S] : \A i, j \in DOMAIN q : q[i] = q[j] => i = j }

\* line 88: list(glob('*.jpg')) + list(glob('*.JPG'))
listings(folder) ==
    { a \o b : a \in Orders(glob(folder, PATTERN_jpg)),
               b \in Orders(glob(folder, PATTERN_JPG)) }

----------------------------------------------------------------------------
(* The files a run can find on disk *)

Path(d, n) == [dir |-> d, name |-> n]
Entry(p, c) == [path |-> p, content |-> c]

Folders == { TRAVEL_FOLDERS[i] : i \in DOMAIN TRAVEL_FOLDERS }

a_jpg == <<"a", ".", "j", "p", "g">>
a_JPG == <<"a", ".", "J", "P", "G">>
b_Jpg == <<"b", ".", "J", "p", "g">>
c_jpg == <<"c", ".", "j", "p", "g">>
a_webp == <<"a", ".", "w", "e", "b", "p">>

\* Files that may lie in a configured folder: a large photo, a PNG with alpha
\* stored under an upper-case extension, a photo with a mixed-case extension,
\* a file that is no image, the sibling an earlier run left, and a photo in
\* a subdirectory.
Catalogue ==
    UNION { { Entry(Path(<<f>>, a_jpg),
                    Content("JPEG", "RGB", <<4000, 3000>>, MaxBytes, 0)),
              Entry(Path(<<f>>, a_JPG),
                    Content("PNG", "RGBA", <<800, 600>>, 1, 0)),
              Entry(Path(<<f>>, b_Jpg),
                    Content("JPEG", "RGB", <<800, 600>>, 1, 0)),
              Entry(Path(<<f>>, c_jpg), Garbage(1)),
              Entry(Path(<<f>>, a_webp),
                    Content("WEBP", "RGB", <<800, 600>>, 1, QUALITY_WEBP)),
              Entry(Path(<<f, "sub">>, a_jpg),
                    Content("JPEG", "RGB", <<800, 600>>, 1, 0)) }
            : f \in Folders }

\* the directories on the way to a path
Parents(p) == { SubSeq(p.dir, 1, k) : k \in 1..Len(p.dir) }

\* the filesystem holding the entries S
FsOf(S) == [p \in { e.path : e \in S } |-> (CHOOSE e \in S : e.path = p).content]

\* Start of a run on the files S (at most one entry per path), the folders D
\* existing besides the files' own, the answer r, and the flag of line 16.
Start(S, D, r, webp) ==
    /\ pc = "prompt"
    /\ response = r
    /\ CREATE_WEBP = webp
    /\ fs = FsOf(S)
    /\ dirs = D \cup UNION { Parents(e.path) : e \in S }
    /\ folder_idx = 1
    /\ images = <<>>
    /\ original_size = 0
    /\ ret = FALSE
    /\ total_images = 0
    /\ total_original = 0
    /\ total_optimized = 0
    /\ out = <<>>
    /\ fs0 = fs
    /\ pre_fs = fs
    /\ calls = <<>>

Yes == <<"o">>
No == <<"n">>

Init ==
    \E S \in SUBSET Catalogue :
    \E D \in SUBSET { <<f>> : f \in Folders } :
    \E r \in {Yes, No} :
    \E webp \in BOOLEAN :
        /\ Cardinality(S) <= MaxFiles
        /\ \A e1, e2 \in S : e1.path = e2.path => e1 = e2
        /\ Start(S, D, r, webp)

----------------------------------------------------------------------------
(* The script *)

\* lines 119-121 and 68-77: the answer is affirmative, main() starts
Confirm ==
    /\ pc = "prompt"
    /\ accepted(response)
    /\ pc' = "folders"
    /\ folder_idx' = 1
    /\ total_images' = 0
    /\ total_original' = 0
    /\ total_optimized' = 0
    /\ out' = out \o <<"config">>
    /\ UNCHANGED <<response, CREATE_WEBP, dirs, fs, images,
                   original_size, ret, fs0, pre_fs, calls>>

\* lines 119-120, 122-123: any other answer
Cancel ==
    /\ pc = "prompt"
    /\ ~accepted(response)
    /\ pc' = "cancelled"
    /\ out' = out \o <<"Annule.">>
    /\ UNCHANGED <<response, CREATE_WEBP, dirs, fs, folder_idx,
                   images, original_size, ret, total_images, total_original,
                   total_optimized, fs0, pre_fs, calls>>

\* lines 79-83: the folder does not exist
FolderSkip ==
    /\ pc = "folders"
    /\ folder_idx <= Len(TRAVEL_FOLDERS)
    /\ ~exists(TRAVEL_FOLDERS[folder_idx])
    /\ out' = out \o <<"introuvable">>
    /\ folder_idx' = folder_idx + 1
    /\ UNCHANGED <<pc, response, CREATE_WEBP, dirs, fs, images,
                   original_size, ret, total_images, total_original,
                   total_optimized, fs0, pre_fs, calls>>

\* lines 79-88: the folder exists and is listed
FolderEnter ==
    /\ pc = "folders"
    /\ folder_idx <= Len(TRAVEL_FOLDERS)
    /\ exists(TRAVEL_FOLDERS[folder_idx])
    /\ out' = out \o <<"folder">>
    /\ images' \in listings(TRAVEL_FOLDERS[folder_idx])
    /\ pc' = "images"
    /\ UNCHANGED <<response, CREATE_WEBP, dirs, fs, folder_idx,
                   original_size, ret, total_images, total_original,
                   total_optimized, fs0, pre_fs, calls>>

\* lines 90-92: the size is read and optimize_image is called on the next file
Optimize ==
    /\ pc = "images"
    /\ images # <<>>
    /\ LET img_path == Head(images)
       IN \E o \in optimize_image(fs, img_path, CREATE_WEBP) :
            /\ original_size' = fs[img_path].bytes
            /\ pre_fs' = fs
            /\ fs' = o.fs
            /\ ret' = o.ret
            /\ out' = out \o o.out
            /\ calls' = Append(calls, [path |-> img_path, ret |-> o.ret,
                                       env |-> o.env, printed |-> o.out,
                                       before |-> fs[img_path].bytes,
                                       after |-> o.fs[img_path].bytes])
            /\ pc' = IF o.raised THEN "Exception" ELSE "returned"
    /\ UNCHANGED <<response, CREATE_WEBP, dirs, folder_idx, images,
                   total_images, total_original, total_optimized, fs0>>

\* lines 92-95: the counters take the file in when the call returned True
Accumulate_always ==
    /\ pc = "returned"
    /\ total_images' = total_images + 1
    /\ total_original' = total_original + original_size
    /\ total_optimized' = total_optimized + fs[Head(images)].bytes
    /\ images' = Tail(images)
    /\ pc' = "images"
    /\ UNCHANGED <<response, CREATE_WEBP, dirs, fs, folder_idx,
                   original_size, ret, out, fs0, pre_fs, calls>>
Accumulate ==
    /\ pc = "returned"
    /\ IF ret
       THEN /\ total_images' = total_images + 1
            /\ total_original' = total_original + original_size
            /\ total_optimized' = total_optimized + fs[Head(images)].bytes
       ELSE UNCHANGED <<total_images, total_original, total_optimized>>
    /\ images' = Tail(images)
    /\ pc' = "images"
    /\ UNCHANGED <<response, CREATE_WEBP, dirs, fs, folder_idx,
                   original_size, ret, out, fs0, pre_fs, calls>>

\* line 90 exhausted: back to line 79 for the next folder
FolderDone ==
    /\ pc = "images"
    /\ images = <<>>
    /\ folder_idx' = folder_idx + 1
    /\ pc' = "folders"
    /\ UNCHANGED <<response, CREATE_WEBP, dirs, fs, images,
                   original_size, ret, total_images, total_original,
                   total_optimized, out, fs0, pre_fs, calls>>

\* lines 97-115: the report.  Line 105 divides by total_original.
Summary ==
    /\ pc = "folders"
    /\ folder_idx > Len(TRAVEL_FOLDERS)
    /\ IF total_original = 0
       THEN /\ out' = out \o <<"RESUME", "count", "original", "optimized">>
            /\ pc' = "ZeroDivisionError"
       ELSE /\ out' = out \o <<"RESUME", "count", "original", "optimized",
                               "saved", "terminee">>
                         \o (IF CREATE_WEBP THEN <<"reminder">> ELSE <<>>)
            /\ pc' = "done"
    /\ UNCHANGED <<response, CREATE_WEBP, dirs, fs, folder_idx,
                   images, original_size, ret, total_images, total_original,
                   total_optimized, fs0, pre_fs, calls>>

\* A run on one photo of any supported format, mode and size, alone in the
\* first configured folder.
Dims == {1, 2, 1999, 2000, 2001, 3000, 4000, 6000}

Decoded ==
    { <<"JPEG", "RGB">>, <<"JPEG", "L">>, <<"JPEG", "CMYK">>,
      <<"PNG", "RGB">>, <<"PNG", "RGBA">>, <<"PNG", "P">>, <<"PNG", "L">>,
      <<"PNG", "LA">> }

InitImage ==
    \E d \in Decoded :
    \E w \in Dims :
    \E h \in Dims :
    \E r \in {Yes, No} :
    \E webp \in BOOLEAN :
        Start({ Entry(Path(<<TRAVEL_FOLDERS[1]>>, a_jpg),
                      Content(d[1], d[2], <<w, h>>, MaxBytes, 0)) },
              {}, r, webp)

\* A run on two photos for every answer the operator may type.
Responses ==
    { <<"o">>, <<"O">>, <<"o","u","i">>, <<"O","U","I">>, <<"O","u","i">>,
      <<"y">>, <<"Y">>, <<"y","e","s">>, <<"Y","E","S">>, <<"y","E","s">>,
      <<"n">>, <<"N">>, <<"n","o","n">>, <<"n","o">>, <<>>, <<"o","u">>,
      <<"o","k">>, <<" ","o">>, <<"o","u","i"," ">>, <<"y","e","s","!">>,
      <<"0">> }

InitPrompt ==
    \E D \in SUBSET { <<f>> : f \in Folders } :
    \E r \in Responses :
    \E webp \in BOOLEAN :
        Start({ e \in Catalogue : /\ e.path.dir = <<TRAVEL_FOLDERS[1]>>
                                  /\ e.path.name \in {a_jpg, c_jpg} },
              D, r, webp)

Next ==
    \/ Confirm
    \/ Cancel
    \/ FolderSkip
    \/ FolderEnter
    \/ Optimize
    \/ Accumulate
    \/ FolderDone
    \/ Summary

Spec == Init /\ [][Next]_vars
SpecImage == InitImage /\ [][Next]_vars
SpecPrompt == InitPrompt /\ [][Next]_vars

----------------------------------------------------------------------------
(* Vocabulary of the properties *)

\* the latest call of optimize_image
Last == calls[Len(calls)]

\* optimize_image has just returned to line 92
Returned == pc = "returned"

\* the run is over, by the end of main or by an exception leaving it
Ended == pc \in {"done", "ZeroDivisionError", "Exception"}

ConfiguredDirs == { <<TRAVEL_FOLDERS[i]>> : i \in DOMAIN TRAVEL_FOLDERS }

\* does name end with the characters tail
EndsWith(name, tail) ==
    /\ Len(name) >= Len(tail)
    /\ SubSeq(name, Len(name) - Len(tail) + 1, Len(name)) = tail

\* the files main's two patterns select in the configured folders
MatchedFiles ==
    { p \in DOMAIN fs0 :
        /\ p.dir \in ConfiguredDirs
        /\ \/ EndsWith(p.name, <<".", "j", "p", "g">>)
           \/ EndsWith(p.name, <<".", "J", "P", "G">>) }

\* the extension of a name: what follows its last dot
Extension(name) ==
    LET k == CHOOSE i \in 0..Len(name) :
                 /\ i > 0 => name[i] = "."
                 /\ \A j \in (i + 1)..Len(name) : name[j] # "."
    IN SubSeq(name, k + 1, Len(name))

\* the derived sibling of a source: same directory, same base name, the
\* secondary format's extension
DerivedSibling(p) ==
    LET base == SubSeq(p.name, 1, Len(p.name) - Len(Extension(p.name)))
    IN [dir |-> p.dir, name |-> base \o <<"w", "e", "b", "p">>]

\* the files the latest call created
CreatedByLast == DOMAIN fs \ DOMAIN pre_fs

\* the modes with an alpha channel or a palette
AlphaOrPalette == {"RGBA", "LA", "P", "PA", "RGBa", "La"}

\* the calls main has finished with: all of them, but for the latest while
\* line 92 has not yet acted on its result
Accounted == IF Returned THEN Len(calls) - 1 ELSE Len(calls)

RECURSIVE SuccessCount(_)
\* number of successful calls among the first n
SuccessCount(n) ==
    IF n = 0 THEN 0
    ELSE SuccessCount(n - 1) + (IF calls[n].ret THEN 1 ELSE 0)

RECURSIVE SuccessBytes(_, _)
\* bytes of the files of the successful calls among the first n, as they
\* were before the call ("before") or after it ("after")
SuccessBytes(n, when) ==
    IF n = 0 THEN 0
    ELSE SuccessBytes(n - 1, when)
         + (IF ~calls[n].ret THEN 0
            ELSE IF when = "before" THEN calls[n].before ELSE calls[n].after)

----------------------------------------------------------------------------
(* C1 *)

\* C1: optimize_image never lets an exception out, whichever step fails
\* (an undecodable file included): no run ends in an exception raised by a
\* call, and when the run is over every file main matched, in every existing
\* folder, has been handed to optimize_image, the failures notwithstanding.
C1_NeverRaisesBatchContinues ==
    /\ pc # "Exception"
    /\ Ended => /\ { calls[i].path : i \in DOMAIN calls } = MatchedFiles
                /\ Len(calls) = Cardinality(MatchedFiles)

\* a run that is over, in which the call on a file that is no image failed
\* and a call on a file of a later folder followed it
C1_Witness ==
    /\ Ended
    /\ \E i, j \in DOMAIN calls :
         /\ i < j
         /\ ~calls[i].ret
         /\ ~Decodable(fs0[calls[i].path])
         /\ calls[i].path.dir # calls[j].path.dir

----------------------------------------------------------------------------
(* C2 *)

\* the lines of the aggregate report, lines 98-108
Report == <<"RESUME", "count", "original", "optimized", "saved", "terminee">>

\* C2: once the operator has confirmed, a run never dies before its end: it
\* visits every configured folder, warns once for each missing one, and
\* finishes having printed the whole aggregate report, whatever folders are
\* missing, hold no matching file or hold files whose transform fails.
C2_RunEndsWithReport ==
    /\ pc # "ZeroDivisionError"
    /\ pc = "done" =>
         /\ folder_idx = Len(TRAVEL_FOLDERS) + 1
         /\ \E k \in 0..Len(out) : SubSeq(out, k + 1, k + Len(Report)) = Report
         /\ Cardinality({ i \in DOMAIN out : out[i] = "introuvable" })
              = Cardinality(ConfiguredDirs \ dirs)

----------------------------------------------------------------------------
(* C3 *)

\* C3, as claimed: a successful call creates exactly one new file, the
\* derived sibling, when CREATE_WEBP is true and none when it is false; a
\* finished run has created one new file per matched source file.
C3_ExactlyOneNewSibling ==
    /\ (Returned /\ ret) =>
         IF CREATE_WEBP THEN CreatedByLast = { DerivedSibling(Last.path) }
         ELSE CreatedByLast = {}
    /\ (pc = "done" /\ CREATE_WEBP) =>
         Cardinality(DOMAIN fs \ DOMAIN fs0) = Cardinality(MatchedFiles)

\* C3, amended: after a successful call with CREATE_WEBP true the derived
\* sibling exists and holds the WebP encoding of the image just saved; the
\* call created it if the path was free, overwrote it otherwise, and created
\* no other file.  With CREATE_WEBP false the call creates no file and
\* leaves the derived path as it was.  Over a run every new file is the
\* derived sibling of a file handed to optimize_image.
C3_SiblingWrittenAtDerivedPath ==
    /\ (Returned /\ ret) =>
         LET p == Last.path
             sib == DerivedSibling(p)
         IN IF CREATE_WEBP
            THEN /\ sib \in DOMAIN fs
                 /\ fs[sib].fmt = "WEBP"
                 /\ fs[sib].quality = QUALITY_WEBP
                 /\ fs[sib].size = fs[p].size
                 /\ CreatedByLast \subseteq {sib}
                 /\ sib \notin DOMAIN pre_fs => CreatedByLast = {sib}
            ELSE /\ CreatedByLast = {}
                 /\ sib \in DOMAIN pre_fs => fs[sib] = pre_fs[sib]
    /\ \A q \in DOMAIN fs \ DOMAIN fs0 :
         \E i \in DOMAIN calls : q = DerivedSibling(calls[i].path)
    /\ ~CREATE_WEBP => DOMAIN fs = DOMAIN fs0

\* a successful call that overwrote a sibling left by an earlier run
C3_Witness ==
    /\ Returned
    /\ ret
    /\ CREATE_WEBP
    /\ DerivedSibling(Last.path) \in DOMAIN pre_fs
    /\ fs[DerivedSibling(Last.path)] # pre_fs[DerivedSibling(Last.path)]

----------------------------------------------------------------------------
(* C4 *)

\* C4: after a successful call on a decodable image of size (w, h): if w or
\* h exceeds MAX_SIZE, the stored image fits MAX_SIZE, both sides are at
\* least 1, one side is the maximum and the other is within one pixel of
\* the exact scaled length; otherwise the stored size is (w, h).
C4_FitsMaxSizeOrUnchanged ==
    (Returned /\ ret) =>
        LET w == pre_fs[Last.path].size[1]
            h == pre_fs[Last.path].size[2]
            w2 == fs[Last.path].size[1]
            h2 == fs[Last.path].size[2]
            W == MAX_SIZE[1]
            H == MAX_SIZE[2]
        IN IF w > W \/ h > H
           THEN /\ w2 <= W /\ h2 <= H
                /\ w2 >= 1 /\ h2 >= 1
                /\ \/ w2 = W /\ Abs(h2 * w - W * h) < w
                   \/ h2 = H /\ Abs(w2 * h - H * w) < h
           ELSE w2 = w /\ h2 = h

\* a successful call on an image too wide but not too high
C4_Witness ==
    /\ Returned
    /\ ret
    /\ pre_fs[Last.path].size[1] > MAX_SIZE[1]
    /\ pre_fs[Last.path].size[2] < MAX_SIZE[2]
    /\ fs[Last.path].size # pre_fs[Last.path].size

----------------------------------------------------------------------------
(* C5 *)

\* C5: after a call on a decodable image whose mode has an alpha channel or
\* a palette, and which the environment did not make fail, the file holds
\* an image with no alpha channel and no palette.
C5_NoAlphaNoPalette ==
    (/\ Returned
     /\ Decodable(pre_fs[Last.path])
     /\ pre_fs[Last.path].mode \in AlphaOrPalette
     /\ ~Last.env) =>
        /\ Decodable(fs[Last.path])
        /\ fs[Last.path].mode \notin AlphaOrPalette

----------------------------------------------------------------------------
(* C6 *)

\* C6: at every point of a run total_images is the number of calls that
\* returned success among those main has finished with, total_original the
\* sum of those files' sizes before their call and total_optimized the sum
\* of their sizes after it; a failed call adds nothing, and the latest
\* call counts only once line 92 has acted on its result.
C6_CountersAreSuccessfulCalls ==
    /\ total_images = SuccessCount(Accounted)
    /\ total_original = SuccessBytes(Accounted, "before")
    /\ total_optimized = SuccessBytes(Accounted, "after")

\* a run that counted one file, shrunk by its transform, and left a failed
\* one out
C6_Witness ==
    /\ pc = "done"
    /\ total_images = 1
    /\ total_optimized < total_original
    /\ \E i \in DOMAIN calls : ~calls[i].ret

----------------------------------------------------------------------------
(* C7 *)

TOKENS == { <<"o">>, <<"o", "u", "i">>, <<"y">>, <<"y", "e", "s">> }

\* the same letter, whatever its case
SameLetter(a, b) ==
    \/ a = b
    \/ \E k \in DOMAIN UPPER : {a, b} = {UPPER[k], LOWER[k]}

\* the answer is one of the affirmative tokens, case ignored
IsAffirmative(r) ==
    \E t \in TOKENS : /\ Len(r) = Len(t)
                      /\ \A i \in DOMAIN t : SameLetter(r[i], t[i])

\* C7: main runs only after an answer that is, case ignored, one of o, oui,
\* y, yes; any other answer ends the program with the cancellation message
\* and no call of optimize_image, every file being as it was.
C7_ConfirmationGuardsEveryWrite ==
    /\ pc \notin {"prompt", "cancelled"} => IsAffirmative(response)
    /\ pc = "cancelled" => /\ ~IsAffirmative(response)
                           /\ out = <<"Annule.">>
    /\ ~IsAffirmative(response) => /\ fs = fs0
                                   /\ calls = <<>>
                                   /\ pc \in {"prompt", "cancelled"}

\* a file rewritten after an affirmative answer typed in capitals
C7_Witness ==
    /\ Returned
    /\ fs # fs0
    /\ response # lower(response)

----------------------------------------------------------------------------
(* C8 *)

\* C8: when the run has finished, for each existing configured folder the files
\* handed to optimize_image are exactly the files directly inside it whose
\* extension is jpg, case ignored, each handed exactly once.
C8_HandedExactlyTheJpgFiles ==
    pc = "done" =>
      \A d \in ConfiguredDirs \cap dirs :
        LET wanted == { p \in DOMAIN fs0 :
                          /\ p.dir = d
                          /\ lower(Extension(p.name)) = <<"j", "p", "g">> }
        IN /\ { calls[i].path : i \in { j \in DOMAIN calls : calls[j].path.dir = d } }
                = wanted
           /\ \A p \in wanted :
                Cardinality({ i \in DOMAIN calls : calls[i].path = p }) = 1

----------------------------------------------------------------------------
(* C9 *)

\* C9: the latest call of optimize_image(path) deleted no file, created at
\* most one, and left every file other than path and its derived sibling
\* with the content it had.
C9_FrameOfOneCall ==
    calls # <<>> =>
        LET p == Last.path
            sib == DerivedSibling(p)
        IN /\ DOMAIN pre_fs \subseteq DOMAIN fs
           /\ Cardinality(CreatedByLast) <= 1
           /\ CreatedByLast \subseteq {sib}
           /\ \A q \in DOMAIN pre_fs \ {p, sib} : fs[q] = pre_fs[q]

\* a call that rewrote its file and created the sibling beside another
\* matched file of the same folder
C9_Witness ==
    /\ Returned
    /\ ret
    /\ CreatedByLast = { DerivedSibling(Last.path) }
    /\ fs[Last.path] # pre_fs[Last.path]
    /\ \E q \in MatchedFiles : q # Last.path /\ q.dir = Last.path.dir

----------------------------------------------------------------------------
(* C10 *)

\* C10: when a call returns failure its file is as it was before the call
\* (or was cut short by a write the I/O layer interrupted) and no success
\* line was printed for it; every file the run re-encoded is counted.
C10_FailureLeavesSourceUntouched ==
    /\ (Returned /\ ~ret) =>
         /\ \/ fs[Last.path] = pre_fs[Last.path]
            \/ fs[Last.path] = Truncated
         /\ \A i \in DOMAIN Last.printed : Last.printed[i] # "ok"
    /\ pc = "done" =>
         Cardinality({ p \in DOMAIN fs0 : fs[p].quality = QUALITY_JPG })
           <= total_images

====
